---- MODULE Spec2Model ----
(***************************************************************************)
(* Model of src/app.py: the Flask junction-box monitoring server.          *)
(*                                                                         *)
(* The server handles every request on a thread of its own, so a handler   *)
(* is split into steps at the points where it reads or writes shared       *)
(* state: the module-level list `alerts`, the dict `power_status`, the     *)
(* files ALERTS_FILE and MSG_FILE and the directory SAVE_DIR.  th[t] is    *)
(* the thread of the t-th request received: its position, its locals and,  *)
(* once it returned, its response.                                         *)
(*                                                                         *)
(* A Python str is modelled as a sequence of chunks (TLA+ strings), so     *)
(* that substring tests, JSON escaping and file overwrites work on         *)
(* positions as the code does.  'DEV001' is <<"DEV001">>.                  *)
(***************************************************************************)
EXTENDS Integers, Sequences, FiniteSets, TLC

VARIABLES
    phase,         \* "boot" until line 43 ran, then "running" ("crashed" if it raised)
    alerts,        \* the module-level list `alerts`
    power_status,  \* the module-level dict `power_status`
    alerts_file,   \* ALERTS_FILE on disk: [exists, data]
    msg_file,      \* MSG_FILE on disk: the lines appended to it
    images,        \* SAVE_DIR: a set of [name, data]
    clock,         \* datetime.now(), in seconds
    th,            \* the request threads
    written,       \* history: every value ever stored under a power_status key
    boot_file,     \* history: ALERTS_FILE as the last start-up found it
    clf            \* the classifier alone: [message, alert_type, done]

vars == <<phase, alerts, power_status, alerts_file, msg_file, images, clock,
          th, written, boot_file, clf>>

-----------------------------------------------------------------------------
(* Bounds *)

\* Requests received in one run of the model, each on its own thread.
MaxRequests == 2
\* Seconds the clock can advance.
MaxClock == 1
\* Chunks in a message given to the classifier.
MaxMsgLen == 5

Threads == 1..MaxRequests

-----------------------------------------------------------------------------
(* Program constants *)

DEV001 == <<"DEV001">>
DEV999 == <<"DEV999">>
UNKNOWN == <<"UNKNOWN">>
PLACEHOLDER == <<"placeholder.jpg">>

devices == {DEV001}

\* Python values a JSON body field can hold: True, False, or None when absent.
PyTrue == "True"
PyFalse == "False"
PyNone == "None"
JsonFlags == {PyTrue, PyFalse, PyNone}

\* Python truthiness of such a value.
Truthy(v) == v = PyTrue

-----------------------------------------------------------------------------
(* Sequence helpers *)

IsPrefix(s, t) == Len(s) <= Len(t) /\ SubSeq(t, 1, Len(s)) = s

\* s occurs in t as a contiguous run: Python's `s in t` on str.
Contains(s, t) ==
    \E i \in 0..(Len(t) - Len(s)) : SubSeq(t, i + 1, i + Len(s)) = s

\* Writing `buf` at offset 0 of a file holding `old`: the bytes beyond the
\* written range stay.
Overwrite(old, buf) ==
    IF Len(buf) >= Len(old) THEN buf ELSE buf \o SubSeq(old, Len(buf) + 1, Len(old))

-----------------------------------------------------------------------------
(* datetime formatting and int formatting *)

DigitChars == <<"0", "1", "2", "3", "4", "5", "6", "7", "8", "9">>

RECURSIVE IntToDigits(_)
IntToDigits(n) ==
    IF n < 10 THEN <<DigitChars[n + 1]>>
    ELSE IntToDigits(n \div 10) \o <<DigitChars[(n % 10) + 1]>>

DigitValue(c) == CHOOSE d \in 0..9 : DigitChars[d + 1] = c

IsDigit(c) == \E d \in 0..9 : DigitChars[d + 1] = c

\* strftime("%Y-%m-%d %H:%M:%S")
StrftimeAlert(t) == <<"ts-">> \o IntToDigits(t)

\* strftime("%Y%m%d_%H%M%S") + ".jpg"
ImageName(t) == <<"img_">> \o IntToDigits(t) \o <<".jpg">>

-----------------------------------------------------------------------------
(* json.dump / json.load on the alert list.  Whitespace is omitted. *)

Q == "\""
BS == "\\"

AlertKeys == <<"id", "device_id", "alert_type", "message", "timestamp", "image">>

RECURSIVE EscapeChunks(_)
EscapeChunks(s) ==
    IF s = <<>> THEN <<>>
    ELSE (IF Head(s) \in {Q, BS} THEN <<BS, Head(s)>> ELSE <<Head(s)>>)
         \o EscapeChunks(Tail(s))

\* A writer that does not escape.
JsonStrRaw(s) == <<Q>> \o s \o <<Q>>

JsonStr(s) == <<Q>> \o EscapeChunks(s) \o <<Q>>

JsonValue(key, v) == IF key = "id" THEN IntToDigits(v) ELSE JsonStr(v)

RECURSIVE JsonMembers(_, _)
JsonMembers(a, k) ==
    JsonStr(<<AlertKeys[k]>>) \o <<":">> \o JsonValue(AlertKeys[k], a[AlertKeys[k]])
    \o (IF k = Len(AlertKeys) THEN <<>> ELSE <<",">> \o JsonMembers(a, k + 1))

JsonAlert(a) == <<"{">> \o JsonMembers(a, 1) \o <<"}">>

RECURSIVE JsonItems(_)
JsonItems(as) ==
    IF as = <<>> THEN <<>>
    ELSE JsonAlert(Head(as))
         \o (IF Tail(as) = <<>> THEN <<>> ELSE <<",">> \o JsonItems(Tail(as)))

json_dump(as) == <<"[">> \o JsonItems(as) \o <<"]">>

ParseFail == [ok |-> FALSE, next |-> 0]

At(toks, i) == IF i <= Len(toks) THEN toks[i] ELSE "<eof>"

RECURSIVE ParseStrBody(_, _, _)
ParseStrBody(toks, i, acc) ==
    IF i > Len(toks) THEN ParseFail
    ELSE IF toks[i] = Q THEN [ok |-> TRUE, val |-> acc, next |-> i + 1]
    ELSE IF toks[i] = BS
         THEN IF At(toks, i + 1) \in {Q, BS}
              THEN ParseStrBody(toks, i + 2, Append(acc, toks[i + 1]))
              ELSE ParseFail
    ELSE ParseStrBody(toks, i + 1, Append(acc, toks[i]))

ParseStr(toks, i) ==
    IF At(toks, i) = Q THEN ParseStrBody(toks, i + 1, <<>>) ELSE ParseFail

RECURSIVE ParseDigits(_, _, _)
ParseDigits(toks, i, n) ==
    IF IsDigit(At(toks, i))
    THEN ParseDigits(toks, i + 1, 10 * n + DigitValue(toks[i]))
    ELSE [ok |-> TRUE, val |-> n, next |-> i]

ParseInt(toks, i) ==
    IF ~IsDigit(At(toks, i)) THEN ParseFail
    ELSE IF At(toks, i) = "0" /\ IsDigit(At(toks, i + 1)) THEN ParseFail
    ELSE ParseDigits(toks, i, 0)

ParseValue(key, toks, i) ==
    IF key = "id" THEN ParseInt(toks, i) ELSE ParseStr(toks, i)

\* Members k.. of an object in the key order json.dump wrote them.
RECURSIVE ParseMembers(_, _, _, _)
ParseMembers(toks, i, k, acc) ==
    LET key == ParseStr(toks, i) IN
    IF ~key.ok \/ key.val # <<AlertKeys[k]>> \/ At(toks, key.next) # ":"
    THEN ParseFail
    ELSE LET v == ParseValue(AlertKeys[k], toks, key.next + 1) IN
         IF ~v.ok THEN ParseFail
         ELSE LET acc2 == acc @@ (AlertKeys[k] :> v.val) IN
              IF k = Len(AlertKeys)
              THEN [ok |-> TRUE, val |-> acc2, next |-> v.next]
              ELSE IF At(toks, v.next) = ","
                   THEN ParseMembers(toks, v.next + 1, k + 1, acc2)
                   ELSE ParseFail

ParseAlert(toks, i) ==
    IF At(toks, i) # "{" THEN ParseFail
    ELSE LET m == ParseMembers(toks, i + 1, 1, <<>>) IN
         IF m.ok /\ At(toks, m.next) = "}"
         THEN [ok |-> TRUE, val |-> m.val, next |-> m.next + 1]
         ELSE ParseFail

RECURSIVE ParseItems(_, _, _)
ParseItems(toks, i, acc) ==
    LET a == ParseAlert(toks, i) IN
    IF ~a.ok THEN ParseFail
    ELSE IF At(toks, a.next) = ","
         THEN ParseItems(toks, a.next + 1, Append(acc, a.val))
         ELSE IF At(toks, a.next) = "]"
              THEN [ok |-> TRUE, val |-> Append(acc, a.val), next |-> a.next + 1]
              ELSE ParseFail

\* json.load: [ok, val]; ok is FALSE where json.load raises.
json_load(toks) ==
    LET r == IF At(toks, 1) # "[" THEN ParseFail
             ELSE IF At(toks, 2) = "]"
                  THEN [ok |-> TRUE, val |-> <<>>, next |-> 3]
                  ELSE ParseItems(toks, 2, <<>>)
    IN IF r.ok /\ r.next = Len(toks) + 1
       THEN [ok |-> TRUE, val |-> r.val]
       ELSE [ok |-> FALSE, val |-> <<>>]

-----------------------------------------------------------------------------
(* Message Classifier: lines 202-210 of receive_from_esp32 *)

ACCESS_STATUS == <<"Access status changed">>
VIBRATION == <<"Vibration detected">>
ALERT_MARK == <<"ALERT:">>
ACCESS_DENIED == <<"Access Denied">>
DOOR_OPENED == <<"Door opened">>

\* The third rule without its second condition.
classify_alert_mark_only(message) ==
    IF Contains(ACCESS_STATUS, message) THEN <<"Access Status Change">>
    ELSE IF Contains(VIBRATION, message) THEN <<"Vibration Alert">>
    ELSE IF Contains(ALERT_MARK, message) THEN <<"Critical Alert">>
    ELSE IF Contains(DOOR_OPENED, message) THEN <<"Door Alert">>
    ELSE <<"General Alert">>

\* The door rule tried before the vibration rule.
classify_door_first(message) ==
    IF Contains(ACCESS_STATUS, message) THEN <<"Access Status Change">>
    ELSE IF Contains(DOOR_OPENED, message) THEN <<"Door Alert">>
    ELSE IF Contains(VIBRATION, message) THEN <<"Vibration Alert">>
    ELSE IF Contains(ALERT_MARK, message) /\ Contains(ACCESS_DENIED, message)
         THEN <<"Critical Alert">>
    ELSE <<"General Alert">>

classify(message) ==
    IF Contains(ACCESS_STATUS, message) THEN <<"Access Status Change">>
    ELSE IF Contains(VIBRATION, message) THEN <<"Vibration Alert">>
    ELSE IF Contains(ALERT_MARK, message) /\ Contains(ACCESS_DENIED, message)
         THEN <<"Critical Alert">>
    ELSE IF Contains(DOOR_OPENED, message) THEN <<"Door Alert">>
    ELSE <<"General Alert">>

-----------------------------------------------------------------------------
(* Power-state classification: lines 74-86 of get_power_status *)

\* The two one-supply rows exchanged.
power_state_swapped(main, backup) ==
    IF Truthy(main) /\ Truthy(backup)
    THEN [state |-> "Normal - Both supplies active", state_class |-> "success"]
    ELSE IF Truthy(main) /\ ~Truthy(backup)
    THEN [state |-> "Running on BACKUP power", state_class |-> "warning"]
    ELSE IF ~Truthy(main) /\ Truthy(backup)
    THEN [state |-> "Main supply active, backup offline", state_class |-> "info"]
    ELSE [state |-> "No Power Available - CRITICAL", state_class |-> "danger"]

power_state(main, backup) ==
    IF Truthy(main) /\ Truthy(backup)
    THEN [state |-> "Normal - Both supplies active", state_class |-> "success"]
    ELSE IF ~Truthy(main) /\ Truthy(backup)
    THEN [state |-> "Running on BACKUP power", state_class |-> "warning"]
    ELSE IF Truthy(main) /\ ~Truthy(backup)
    THEN [state |-> "Main supply active, backup offline", state_class |-> "info"]
    ELSE [state |-> "No Power Available - CRITICAL", state_class |-> "danger"]

\* Lines 90-91.
OnOff(v) == IF Truthy(v) THEN "ON" ELSE "OFF"

\* An outcome list in which one entry is a main-supply failure.
scenarios_with_outage ==
    << [main |-> PyTrue, backup |-> PyTrue], [main |-> PyTrue, backup |-> PyTrue],
       [main |-> PyTrue, backup |-> PyTrue], [main |-> PyTrue, backup |-> PyTrue],
       [main |-> PyTrue, backup |-> PyTrue], [main |-> PyTrue, backup |-> PyTrue],
       [main |-> PyFalse, backup |-> PyTrue] >>

\* The simulator's candidate outcomes, lines 124-132.
scenarios ==
    << [main |-> PyTrue, backup |-> PyTrue], [main |-> PyTrue, backup |-> PyTrue],
       [main |-> PyTrue, backup |-> PyTrue], [main |-> PyTrue, backup |-> PyTrue],
       [main |-> PyTrue, backup |-> PyTrue], [main |-> PyTrue, backup |-> PyTrue],
       [main |-> PyTrue, backup |-> PyTrue] >>

-----------------------------------------------------------------------------
(* Thread-local state *)

NoAlert == [id |-> 0, device_id |-> <<>>, alert_type |-> <<>>, message |-> <<>>,
            timestamp |-> <<>>, image |-> <<>>]

NoStatus == [main |-> PyNone, backup |-> PyNone, last_update |-> 0]

NoBody == [text |-> "", state |-> "", state_class |-> "", main_supply |-> "",
           backup_supply |-> "", last_update |-> <<>>, list |-> <<>>,
           power |-> NoStatus]

Idle == [pc |-> "idle", op |-> "none", device_id |-> <<>>, img |-> <<>>,
         alert |-> NoAlert, buf |-> <<>>, status |-> NoStatus,
         code |-> 0, body |-> NoBody]

\* The t-th request arrives: the server is up and the requests before it have
\* arrived.
Ready(t) ==
    /\ phase = "running"
    /\ th[t].pc = "idle"
    /\ \A u \in Threads : u < t => th[u].pc # "idle"

\* The handler of thread t returned (code 500: it raised): its locals are gone.
Returned(t, op, dev, code, body) ==
    [th EXCEPT ![t] = [Idle EXCEPT !.pc = "done", !.op = op, !.device_id = dev,
                                   !.code = code, !.body = body]]

AtPc(t, pc) == phase = "running" /\ th[t].pc = pc

InProgress(t) == th[t].pc \notin {"idle", "done"}

-----------------------------------------------------------------------------
(* Inputs *)

\* The query string of a request: ?device_id=DEV001, or no parameter.
NoArgs == <<>>
DeviceArg(dev) == [device_id |-> dev]

\* POST /old with an image: ?device_id=DEV001 and a body.
OneImage == {[args |-> DeviceArg(DEV001), data |-> <<"b", "b">>]}
TwoImages == OneImage \cup {[args |-> DeviceArg(DEV001), data |-> <<"a">>]}

\* POST /old with a form: device_id given, or absent.
OneForm == {[args |-> NoArgs, message |-> <<Q, BS>>]}
TwoForms ==
    OneForm \cup {[args |-> DeviceArg(DEV001),
                   message |-> <<"Door opened", " at front gate">>]}

ContentTypes == {"image/jpeg", "application/x-www-form-urlencoded", "text/plain"}

\* JSON bodies of POST /update-power-status: the four boolean pairs, fields
\* left out (request.json.get gives None), and an unregistered device.
UpdateRequests ==
    {[device_id |-> DEV001, main_supply |-> m, backup_supply |-> b]
       : m \in {PyTrue, PyFalse}, b \in {PyTrue, PyFalse}}
    \cup {[device_id |-> DEV001, main_supply |-> PyNone, backup_supply |-> PyNone],
          [device_id |-> DEV001, main_supply |-> PyNone, backup_supply |-> PyTrue],
          [device_id |-> DEV999, main_supply |-> PyFalse, backup_supply |-> PyTrue]}

JsonDeviceIds == {DEV001, DEV999}

\* What opening a file for writing can do: succeed, or also raise.
HealthyDisk == {TRUE}
FaultyDisk == BOOLEAN

-----------------------------------------------------------------------------
(* Start-up: lines 19-43 *)

PriorAlert ==
    [id |-> 1, device_id |-> DEV001, alert_type |-> <<"Image Captured">>,
     message |-> <<"Photo captured by device">>, timestamp |-> StrftimeAlert(0),
     image |-> ImageName(0)]

NoFile == [exists |-> FALSE, data |-> <<>>]

\* ALERTS_FILE as an earlier run of the program can have left it: absent, a
\* complete dump of its store, or a dump cut short.
InitialFiles ==
    {NoFile,
     [exists |-> TRUE, data |-> json_dump(<<PriorAlert>>)],
     [exists |-> TRUE,
      data |-> SubSeq(json_dump(<<PriorAlert>>), 1, Len(json_dump(<<PriorAlert>>)) - 1)]}

NoClf == [message |-> <<>>, alert_type |-> <<>>, done |-> FALSE]

\* Lines 22-24.
InitialPower(now) ==
    [d \in devices |-> [main |-> PyTrue, backup |-> PyTrue, last_update |-> now]]

\* The module body up to line 42, in a directory holding `files`.
InitWith(files) ==
    /\ phase = "boot"
    /\ alerts = <<>>
    /\ power_status = InitialPower(0)
    /\ alerts_file \in files
    /\ msg_file = <<>>
    /\ images = {}
    /\ clock = 0
    /\ th = [t \in Threads |-> Idle]
    /\ written = {[main |-> PyTrue, backup |-> PyTrue, last_update |-> 0]}
    /\ boot_file = NoFile

\* A first deployment: no alert file yet.
Init == InitWith({NoFile}) /\ clf = NoClf

\* A start in a directory an earlier run left.
InitAnyFile == InitWith(InitialFiles) /\ clf = NoClf

\* A start-up that does not read the file.
load_alerts_ignored(f, cur) == [alerts |-> <<>>, raised |-> FALSE]

\* A load without the try/except.
load_alerts_unguarded(f, cur) ==
    IF f.exists
    THEN LET r == json_load(f.data) IN
         IF r.ok THEN [alerts |-> r.val, raised |-> FALSE]
         ELSE [alerts |-> cur, raised |-> TRUE]
    ELSE [alerts |-> cur, raised |-> FALSE]

\* load_alerts_from_file: the new value of `alerts`, and whether it raised.
load_alerts_from_file(f, cur) ==
    IF f.exists
    THEN LET r == json_load(f.data) IN
         IF r.ok THEN [alerts |-> r.val, raised |-> FALSE]
         ELSE [alerts |-> <<>>, raised |-> FALSE]
    ELSE [alerts |-> cur, raised |-> FALSE]

\* Line 43.
Startup ==
    /\ phase = "boot"
    /\ LET r == load_alerts_from_file(alerts_file, alerts) IN
       /\ alerts' = r.alerts
       /\ phase' = IF r.raised THEN "crashed" ELSE "running"
    /\ boot_file' = alerts_file
    /\ UNCHANGED <<power_status, alerts_file, msg_file, images, clock, th,
                   written, clf>>

\* The process is stopped between requests and started again: the module
\* body runs anew on the files left on disk.
Restart ==
    /\ phase = "running"
    /\ \A t \in Threads : ~InProgress(t)
    /\ phase' = "boot"
    /\ alerts' = <<>>
    /\ power_status' = InitialPower(clock)
    /\ written' = written \cup {[main |-> PyTrue, backup |-> PyTrue,
                                 last_update |-> clock]}
    /\ UNCHANGED <<alerts_file, msg_file, images, clock, th, boot_file, clf>>

\* datetime.now() advances.  Time is seen only by the handlers: the clock
\* moves while a request can still arrive or a handler is about to read it.
Tick ==
    /\ clock < MaxClock
    /\ \E t \in Threads : th[t].pc \in {"idle", "build"}
    /\ clock' = clock + 1
    /\ UNCHANGED <<phase, alerts, power_status, alerts_file, msg_file, images,
                   th, written, boot_file, clf>>

-----------------------------------------------------------------------------
(* Read endpoints *)

SelectDevice(as, dev) == SelectSeq(as, LAMBDA a : a.device_id = dev)

\* GET /device/<device_id>/alerts, lines 53-57.
get_device_alerts(t, dev) ==
    /\ Ready(t)
    /\ th' = Returned(t, "device_alerts", dev, 200,
                      [NoBody EXCEPT !.list = SelectDevice(alerts, dev)])
    /\ UNCHANGED <<phase, alerts, power_status, alerts_file, msg_file, images,
                   clock, written, boot_file, clf>>

\* GET /alerts-history, lines 59-62.
get_alerts_history(t) ==
    /\ Ready(t)
    /\ th' = Returned(t, "alerts_history", <<>>, 200, [NoBody EXCEPT !.list = alerts])
    /\ UNCHANGED <<phase, alerts, power_status, alerts_file, msg_file, images,
                   clock, written, boot_file, clf>>

-----------------------------------------------------------------------------
(* GET /device/<device_id>/power-status, lines 64-95 *)

NotFound == [NoBody EXCEPT !.text = "Device not found"]

\* Lines 67-70: the membership test and `status = power_status[device_id]`.
get_power_status(t, dev) ==
    /\ Ready(t)
    /\ IF dev \notin DOMAIN power_status
       THEN th' = Returned(t, "power_status", dev, 404, NotFound)
       ELSE th' = [th EXCEPT ![t] = [Idle EXCEPT !.pc = "ps_respond",
                                                 !.op = "power_status",
                                                 !.device_id = dev,
                                                 !.status = power_status[dev]]]
    /\ UNCHANGED <<phase, alerts, power_status, alerts_file, msg_file, images,
                   clock, written, boot_file, clf>>

\* Lines 71-95: main, backup and last_update all come from the local `status`.
PowerStatusBody(status) ==
    [NoBody EXCEPT !.main_supply = OnOff(status.main),
                   !.backup_supply = OnOff(status.backup),
                   !.state = power_state(status.main, status.backup).state,
                   !.state_class = power_state(status.main, status.backup).state_class,
                   !.last_update = StrftimeAlert(status.last_update)]

\* A response that takes last_update from the dict again instead of `status`.
PowerStatusRespondRereads(t) ==
    /\ AtPc(t, "ps_respond")
    /\ th' = Returned(t, "power_status", th[t].device_id, 200,
                      [PowerStatusBody(th[t].status) EXCEPT
                         !.last_update =
                            StrftimeAlert(power_status[th[t].device_id].last_update)])
    /\ UNCHANGED <<phase, alerts, power_status, alerts_file, msg_file, images,
                   clock, written, boot_file, clf>>

PowerStatusRespond(t) ==
    /\ AtPc(t, "ps_respond")
    /\ th' = Returned(t, "power_status", th[t].device_id, 200,
                      PowerStatusBody(th[t].status))
    /\ UNCHANGED <<phase, alerts, power_status, alerts_file, msg_file, images,
                   clock, written, boot_file, clf>>

-----------------------------------------------------------------------------
(* POST /update-power-status, lines 97-113 *)

\* Lines 107-111 and 135-139: one item assignment storing a freshly built dict.
StorePower(ps, dev, main, backup, now) ==
    [ps EXCEPT ![dev] = [main |-> main, backup |-> backup, last_update |-> now]]

\* An update without the membership test of lines 104-105.
update_power_status_unchecked(t, dev, main_supply, backup_supply) ==
    /\ Ready(t)
    /\ power_status' = (dev :> [main |-> main_supply, backup |-> backup_supply,
                                last_update |-> clock]) @@ power_status
    /\ written' = written \cup {[main |-> main_supply, backup |-> backup_supply,
                                 last_update |-> clock]}
    /\ th' = Returned(t, "update", dev, 200, [NoBody EXCEPT !.text = "success"])
    /\ UNCHANGED <<phase, alerts, alerts_file, msg_file, images, clock,
                   boot_file, clf>>

\* An update that raises an alert when the main supply is down, as the
\* simulator does.
update_power_status_alerting(t, dev, main_supply, backup_supply) ==
    /\ Ready(t)
    /\ IF dev \notin DOMAIN power_status
       THEN /\ th' = Returned(t, "update", dev, 404, NotFound)
            /\ UNCHANGED <<power_status, written>>
       ELSE /\ power_status' = [power_status EXCEPT ![dev] =
                                  [main |-> main_supply, backup |-> backup_supply,
                                   last_update |-> clock]]
            /\ written' = written \cup {[main |-> main_supply,
                                         backup |-> backup_supply,
                                         last_update |-> clock]}
            /\ th' = IF main_supply = PyFalse
                     THEN [th EXCEPT ![t] =
                             [Idle EXCEPT !.op = "update", !.device_id = dev,
                                          !.pc = "build",
                                          !.alert = [NoAlert EXCEPT
                                                       !.device_id = dev]]]
                     ELSE Returned(t, "update", dev, 200,
                                   [NoBody EXCEPT !.text = "success"])
    /\ UNCHANGED <<phase, alerts, alerts_file, msg_file, images, clock,
                   boot_file, clf>>

update_power_status(t, dev, main_supply, backup_supply) ==
    /\ Ready(t)
    /\ IF dev \notin DOMAIN power_status
       THEN /\ th' = Returned(t, "update", dev, 404, NotFound)
            /\ UNCHANGED <<power_status, written>>
       ELSE /\ power_status' = StorePower(power_status, dev, main_supply,
                                          backup_supply, clock)
            /\ written' = written \cup {[main |-> main_supply,
                                         backup |-> backup_supply,
                                         last_update |-> clock]}
            /\ th' = Returned(t, "update", dev, 200, [NoBody EXCEPT !.text = "success"])
    /\ UNCHANGED <<phase, alerts, alerts_file, msg_file, images, clock,
                   boot_file, clf>>

-----------------------------------------------------------------------------
(* The append sequence of lines 143-152, 154-163, 183-192 and 213-222 *)

\* `"id": len(alerts) + 1`
next_id(as) == Len(as) + 1

\* The alert dict is built: the id and, except on the message path where it
\* was taken at line 199, the timestamp.
BuildAlert(t) ==
    /\ AtPc(t, "build")
    /\ th' = [th EXCEPT ![t].alert =
                [@ EXCEPT !.id = next_id(alerts),
                          !.timestamp = IF th[t].op = "message" THEN @
                                        ELSE StrftimeAlert(clock)],
              ![t].pc = "append"]
    /\ UNCHANGED <<phase, alerts, power_status, alerts_file, msg_file, images,
                   clock, written, boot_file, clf>>

\* An insertion at the front.
list_prepend(as, a) == <<a>> \o as

\* alerts.append(alert)
list_append(as, a) == Append(as, a)

AppendAlert(t) ==
    /\ AtPc(t, "append")
    /\ alerts' = list_append(alerts, th[t].alert)
    /\ th' = [th EXCEPT ![t].pc = "save"]
    /\ UNCHANGED <<phase, power_status, alerts_file, msg_file, images, clock,
                   written, boot_file, clf>>

\* save_alerts_to_file, lines 39-40.  open(ALERTS_FILE, "w") truncates the
\* file, or raises OSError, which no handler catches; json.dump then
\* serialises the list as it is now into the file object's buffer.
SaveWrite(t, disk) ==
    /\ AtPc(t, "save")
    /\ \E ok \in disk :
         IF ok
         THEN /\ alerts_file' = [exists |-> TRUE, data |-> <<>>]
              /\ th' = [th EXCEPT ![t].pc = "save_close",
                                  ![t].buf = json_dump(alerts)]
         ELSE /\ th' = Returned(t, th[t].op, th[t].device_id, 500, NoBody)
              /\ UNCHANGED alerts_file
    /\ UNCHANGED <<phase, alerts, power_status, msg_file, images, clock,
                   written, boot_file, clf>>

\* Leaving the `with` block flushes the buffer at this descriptor's offset 0.
\* The handler then goes on: the image path returns, the message path writes
\* MSG_FILE, the simulator builds its response.
SaveClose(t) ==
    /\ AtPc(t, "save_close")
    /\ alerts_file' = [exists |-> TRUE,
                       data |-> Overwrite(alerts_file.data, th[t].buf)]
    /\ th' = IF th[t].op = "image"
             THEN Returned(t, "image", th[t].device_id, 200,
                           [NoBody EXCEPT !.text = "Image received"])
             ELSE [th EXCEPT ![t].buf = <<>>,
                             ![t].pc = IF th[t].op = "message" THEN "audit"
                                       ELSE "sim_return"]
    /\ UNCHANGED <<phase, alerts, power_status, msg_file, images, clock,
                   written, boot_file, clf>>

-----------------------------------------------------------------------------
(* POST /simulate-power-change, lines 115-165 *)

\* Lines 143-150 and 154-161.
PowerAlert(dev, main, backup) ==
    [NoAlert EXCEPT !.device_id = dev,
                    !.alert_type = IF Truthy(backup) THEN <<"Power Alert">>
                                   ELSE <<"Critical Power Alert">>,
                    !.message = IF Truthy(backup)
                                THEN <<"Main supply failed - Running on BACKUP power">>
                                ELSE <<"CRITICAL: No Power Available">>,
                    !.image = PLACEHOLDER]

\* A simulator without the membership test of lines 120-121.
simulate_power_change_unchecked(t, dev) ==
    /\ Ready(t)
    /\ \E i \in 1..Len(scenarios) :
         LET scenario == scenarios[i]
             stored == [main |-> scenario.main, backup |-> scenario.backup,
                        last_update |-> clock]
         IN /\ power_status' = (dev :> stored) @@ power_status
            /\ written' = written \cup {stored}
            /\ th' = [th EXCEPT ![t] = [Idle EXCEPT !.op = "simulate",
                                                    !.device_id = dev,
                                                    !.pc = "sim_return"]]
    /\ UNCHANGED <<phase, alerts, alerts_file, msg_file, images, clock,
                   boot_file, clf>>

\* Lines 118-142/153: the lookup, random.choice, the store, and the branch.
simulate_power_change(t, dev) ==
    /\ Ready(t)
    /\ IF dev \notin DOMAIN power_status
       THEN /\ th' = Returned(t, "simulate", dev, 404, NotFound)
            /\ UNCHANGED <<power_status, written>>
       ELSE \E i \in 1..Len(scenarios) :
              LET scenario == scenarios[i] IN
              /\ power_status' = StorePower(power_status, dev, scenario.main,
                                            scenario.backup, clock)
              /\ written' = written \cup {[main |-> scenario.main,
                                           backup |-> scenario.backup,
                                           last_update |-> clock]}
              /\ th' = [th EXCEPT ![t] =
                          [Idle EXCEPT !.op = "simulate", !.device_id = dev,
                                       !.pc = IF ~Truthy(scenario.main)
                                              THEN "build" ELSE "sim_return",
                                       !.alert = IF ~Truthy(scenario.main)
                                                 THEN PowerAlert(dev, scenario.main,
                                                                 scenario.backup)
                                                 ELSE NoAlert]]
    /\ UNCHANGED <<phase, alerts, alerts_file, msg_file, images, clock,
                   boot_file, clf>>

\* Line 165 reads power_status[device_id] again.
SimulateReturn(t) ==
    /\ AtPc(t, "sim_return")
    /\ th' = Returned(t, "simulate", th[t].device_id, 200,
                      [NoBody EXCEPT !.text = "success",
                                     !.power = power_status[th[t].device_id]])
    /\ UNCHANGED <<phase, alerts, power_status, alerts_file, msg_file, images,
                   clock, written, boot_file, clf>>

-----------------------------------------------------------------------------
(* POST /old, lines 167-230 *)

\* A lookup that gives the empty string for a missing parameter.
args_get_empty(args, key, default) ==
    IF key \in DOMAIN args THEN args[key] ELSE <<>>

\* request.args.get(key, default), lines 180 and 198.
args_get(args, key, default) ==
    IF key \in DOMAIN args THEN args[key] ELSE default

BlobData(name) ==
    IF \E b \in images : b.name = name
    THEN (CHOOSE b \in images : b.name = name).data ELSE <<>>

PutBlob(name, data) ==
    {b \in images : b.name # name} \cup {[name |-> name, data |-> data]}

\* Lines 171-176: the file name from the clock; open(path, "wb") truncates.
receive_image(t, dev, img_bytes) ==
    /\ Ready(t)
    /\ LET fname == ImageName(clock) IN
       /\ images' = PutBlob(fname, <<>>)
       /\ th' = [th EXCEPT ![t] =
                   [Idle EXCEPT !.pc = "img_write", !.op = "image",
                                !.device_id = dev, !.img = img_bytes,
                                !.alert = [NoAlert EXCEPT
                                             !.device_id = dev,
                                             !.alert_type = <<"Image Captured">>,
                                             !.message = <<"Photo captured by device">>,
                                             !.image = fname]]]
    /\ UNCHANGED <<phase, alerts, power_status, alerts_file, msg_file, clock,
                   written, boot_file, clf>>

\* Lines 177-178: f.write(img_bytes) reaches the file when the block closes it.
WriteImage(t) ==
    /\ AtPc(t, "img_write")
    /\ images' = PutBlob(th[t].alert.image,
                         Overwrite(BlobData(th[t].alert.image), th[t].img))
    /\ th' = [th EXCEPT ![t].pc = "build", ![t].img = <<>>]
    /\ UNCHANGED <<phase, alerts, power_status, alerts_file, msg_file, clock,
                   written, boot_file, clf>>

\* A form path that writes its MSG_FILE line first.
receive_message_logs_first(t, dev, message) ==
    /\ Ready(t)
    /\ msg_file' = Append(msg_file, StrftimeAlert(clock) \o <<" | ">> \o dev
                                    \o <<" | ">> \o message)
    /\ th' = [th EXCEPT ![t] =
                [Idle EXCEPT !.pc = "build", !.op = "message", !.device_id = dev,
                             !.alert = [NoAlert EXCEPT
                                          !.device_id = dev,
                                          !.alert_type = classify(message),
                                          !.message = message,
                                          !.timestamp = StrftimeAlert(clock),
                                          !.image = PLACEHOLDER]]]
    /\ UNCHANGED <<phase, alerts, power_status, alerts_file, images,
                   clock, written, boot_file, clf>>

\* Lines 196-210: the form fields, the timestamp and the classification.
receive_message(t, dev, message) ==
    /\ Ready(t)
    /\ th' = [th EXCEPT ![t] =
                [Idle EXCEPT !.pc = "build", !.op = "message", !.device_id = dev,
                             !.alert = [NoAlert EXCEPT
                                          !.device_id = dev,
                                          !.alert_type = classify(message),
                                          !.message = message,
                                          !.timestamp = StrftimeAlert(clock),
                                          !.image = PLACEHOLDER]]]
    /\ UNCHANGED <<phase, alerts, power_status, alerts_file, msg_file, images,
                   clock, written, boot_file, clf>>

\* Line 226.
AuditLine(a) == a.timestamp \o <<" | ">> \o a.device_id \o <<" | ">> \o a.message

\* Lines 225-228: open(MSG_FILE, "a") may raise; otherwise one line is added.
AuditLog(t, disk) ==
    /\ AtPc(t, "audit")
    /\ \E ok \in disk :
         IF ok
         THEN /\ msg_file' = Append(msg_file, AuditLine(th[t].alert))
              /\ th' = Returned(t, "message", th[t].device_id, 200,
                                [NoBody EXCEPT !.text = "Message received"])
         ELSE /\ th' = Returned(t, "message", th[t].device_id, 500, NoBody)
              /\ UNCHANGED msg_file
    /\ UNCHANGED <<phase, alerts, power_status, alerts_file, images, clock,
                   written, boot_file, clf>>

\* A fall-through that logs the rejected request in MSG_FILE.
receive_unsupported_logged(t, content_type) ==
    /\ Ready(t)
    /\ msg_file' = Append(msg_file, <<content_type>>)
    /\ th' = Returned(t, "unsupported", <<>>, 400,
                      [NoBody EXCEPT !.text = "Unsupported Content-Type"])
    /\ UNCHANGED <<phase, alerts, power_status, alerts_file, images,
                   clock, written, boot_file, clf>>

\* Line 230.
receive_unsupported(t, content_type) ==
    /\ Ready(t)
    /\ th' = Returned(t, "unsupported", <<>>, 400,
                      [NoBody EXCEPT !.text = "Unsupported Content-Type"])
    /\ UNCHANGED <<phase, alerts, power_status, alerts_file, msg_file, images,
                   clock, written, boot_file, clf>>

\* The dispatch on request.content_type, lines 171, 196, 230.
receive_from_esp32(t, content_type, image_requests, form_requests) ==
    IF content_type = "image/jpeg"
    THEN \E r \in image_requests :
           receive_image(t, args_get(r.args, "device_id", UNKNOWN), r.data)
    ELSE IF content_type = "application/x-www-form-urlencoded"
    THEN \E r \in form_requests :
           receive_message(t, args_get(r.args, "device_id", UNKNOWN), r.message)
    ELSE receive_unsupported(t, content_type)

-----------------------------------------------------------------------------
(* The classifier on its own *)

MessageChunks ==
    {"Access status changed", "Vibration detected", "ALERT:", "Access Denied",
     "Door opened", " ", " at front gate"}

RECURSIVE SeqsUpTo(_, _)
SeqsUpTo(S, n) ==
    IF n = 0 THEN {<<>>}
    ELSE LET shorter == SeqsUpTo(S, n - 1) IN
         shorter \cup {Append(m, c) : m \in shorter, c \in S}

InitClassifier ==
    /\ InitWith({NoFile})
    /\ clf \in {[NoClf EXCEPT !.message = m] : m \in SeqsUpTo(MessageChunks, MaxMsgLen)}

Classify ==
    /\ ~clf.done
    /\ clf' = [clf EXCEPT !.alert_type = classify(clf.message), !.done = TRUE]
    /\ UNCHANGED <<phase, alerts, power_status, alerts_file, msg_file, images,
                   clock, th, written, boot_file>>

-----------------------------------------------------------------------------
(* Specifications *)

NextCommon ==
    \/ Startup
    \/ Tick

\* `gate` is TRUE where requests are handled concurrently, and Quiet where a
\* request arrives only after the one before it returned.
NextReads(gate) ==
    \/ \E t \in Threads, dev \in JsonDeviceIds : gate /\ get_device_alerts(t, dev)
    \/ \E t \in Threads : gate /\ get_alerts_history(t)

NextPower ==
    \/ \E t \in Threads, dev \in JsonDeviceIds : get_power_status(t, dev)
    \/ \E t \in Threads : PowerStatusRespond(t)
    \/ \E t \in Threads, r \in UpdateRequests :
         update_power_status(t, r.device_id, r.main_supply, r.backup_supply)
    \/ \E t \in Threads, dev \in JsonDeviceIds : simulate_power_change(t, dev)
    \/ \E t \in Threads : SimulateReturn(t)

NextStore(gate, disk, image_requests, form_requests) ==
    \/ \E t \in Threads, ct \in ContentTypes :
         gate /\ receive_from_esp32(t, ct, image_requests, form_requests)
    \/ \E t \in Threads : WriteImage(t)
    \/ \E t \in Threads : BuildAlert(t)
    \/ \E t \in Threads : AppendAlert(t)
    \/ \E t \in Threads : SaveWrite(t, disk)
    \/ \E t \in Threads : SaveClose(t)
    \/ \E t \in Threads : AuditLog(t, disk)

Next ==
    \/ NextCommon
    \/ NextReads(TRUE)
    \/ NextPower
    \/ NextStore(TRUE, HealthyDisk, OneImage, OneForm)

\* The whole server, first deployed, on a disk whose writes succeed.
Spec == Init /\ [][Next]_vars

\* The power endpoints.
SpecPower == Init /\ [][NextCommon \/ NextPower]_vars

\* The classifier applied to one message.
SpecClassifier == InitClassifier /\ [][Classify]_vars

Quiet == phase = "running" /\ \A t \in Threads : ~InProgress(t)

\* Requests handled one at a time, with restarts, from any alert file.
NextRestart ==
    \/ NextCommon
    \/ Restart
    \/ NextReads(Quiet)
    \/ NextStore(Quiet, HealthyDisk, OneImage, TwoForms)

SpecRestart == InitAnyFile /\ [][NextRestart]_vars

\* The ingestion endpoint on a disk where opening a file for writing can
\* fail, all requests arriving within one second of the clock.
NextFaults ==
    \/ Startup
    \/ NextStore(TRUE, FaultyDisk, OneImage, OneForm)

SpecFaults == Init /\ [][NextFaults]_vars

\* The ingestion endpoint alone, all requests arriving within one second of
\* the clock, with two images and two forms to choose from.
NextIngest ==
    \/ Startup
    \/ NextStore(TRUE, HealthyDisk, TwoImages, TwoForms)

SpecIngest == Init /\ [][NextIngest]_vars

-----------------------------------------------------------------------------
(* Properties *)

\* The requests that appended an alert and returned.
Appended == {t \in Threads : th[t].pc = "done" /\ th[t].code = 200
                             /\ th[t].op \in {"image", "message"}}

Ids == {alerts[i].id : i \in DOMAIN alerts}

\* C1: once N appends have run to completion from an empty store, however
\* their steps interleaved, the store has N entries and their ids are
\* exactly 1..N.
C1_IdsDenseAndUnique ==
    Quiet => /\ Len(alerts) = Cardinality(Appended)
             /\ Ids = 1..Cardinality(Appended)

C3_FileMatchesStore ==
    (Quiet /\ Appended # {}) =>
        /\ alerts_file.exists
        /\ alerts_file.data = json_dump(alerts)

\* C4: saving the alert list and loading what was saved gives the same
\* list back: same length, same records, same order.
C4_RoundTrip ==
    load_alerts_from_file([exists |-> TRUE, data |-> json_dump(alerts)], <<>>).alerts
        = alerts

\* A store holding a message with a quote and a backslash was saved, the
\* process restarted, and the start-up load brought the same store back.
C4_Witness ==
    /\ Quiet
    /\ boot_file.exists
    /\ boot_file.data = json_dump(alerts)
    /\ \E i \in DOMAIN alerts : alerts[i].message = <<Q, BS>>

Unreadable(f) == ~f.exists \/ ~json_load(f.data).ok

\* C5: start-up never fails; when the alert file is missing or does not
\* parse, the server comes up with an empty store.
C5_FailOpen ==
    [][phase = "boot" /\ phase' # "boot"
         => /\ phase' = "running"
            /\ Unreadable(alerts_file) => alerts' = <<>>]_vars

\* The server started on a file cut short, with an empty store, and then
\* accepted a submission.
C5_Witness ==
    /\ boot_file.exists
    /\ ~json_load(boot_file.data).ok
    /\ \E t \in Threads : th[t].pc = "done" /\ th[t].op = "message" /\ th[t].code = 200
    /\ Len(alerts) = 1
    /\ alerts[1].id = 1

Arrives(t) == th[t].pc = "idle" /\ th'[t].pc # "idle"

PowerReads == {t \in Threads : th[t].pc = "done" /\ th[t].op = "power_status"
                               /\ th[t].code = 200}

FourStates ==
    {<<"Normal - Both supplies active", "success">>,
     <<"Running on BACKUP power", "warning">>,
     <<"Main supply active, backup offline", "info">>,
     <<"No Power Available - CRITICAL", "danger">>}

\* C6: a power-status read of a registered device takes the pair stored at
\* that moment and answers with the label and severity the table gives for
\* it; no response carries any other (label, severity) pair.
C6_PowerStateTable ==
    [][\A t \in Threads :
         /\ Arrives(t) /\ th'[t].pc = "ps_respond"
              => th'[t].status = power_status[th'[t].device_id]
         /\ th[t].pc = "ps_respond" /\ th'[t].pc = "done"
              => LET main == th[t].status.main
                     backup == th[t].status.backup
                     got == <<th'[t].body.state, th'[t].body.state_class>>
                 IN /\ th'[t].code = 200
                    /\ got \in FourStates
                    /\ main = PyTrue /\ backup = PyTrue
                         => got = <<"Normal - Both supplies active", "success">>
                    /\ main = PyFalse /\ backup = PyTrue
                         => got = <<"Running on BACKUP power", "warning">>
                    /\ main = PyTrue /\ backup = PyFalse
                         => got = <<"Main supply active, backup offline", "info">>
                    /\ main = PyFalse /\ backup = PyFalse
                         => got = <<"No Power Available - CRITICAL", "danger">>
      ]_vars

\* An update with main=false, backup=true returned, and the read after it
\* answered "Running on BACKUP power" / warning.
C6_Witness ==
    /\ th[1].pc = "done" /\ th[1].op = "update" /\ th[1].code = 200
    /\ power_status[DEV001].main = PyFalse /\ power_status[DEV001].backup = PyTrue
    /\ 2 \in PowerReads
    /\ th[2].body.state = "Running on BACKUP power"
    /\ th[2].body.state_class = "warning"
    /\ th[2].body.main_supply = "OFF"

\* C7: the value stored for a device is always one that a single update (or
\* the initialisation) wrote, and every power-status response reports the
\* main, backup and last_update of one such value.
C7_AtomicPowerWrite ==
    /\ \A d \in DOMAIN power_status : power_status[d] \in written
    /\ \A t \in PowerReads :
         \E w \in written :
           /\ th[t].body.main_supply = OnOff(w.main)
           /\ th[t].body.backup_supply = OnOff(w.backup)
           /\ th[t].body.last_update = StrftimeAlert(w.last_update)
    /\ \A t \in Threads :
         th[t].pc = "done" /\ th[t].op = "simulate" /\ th[t].code = 200
           => th[t].body.power \in written

\* A read took its value, an update then replaced both supplies a second
\* later, and the read answered with the value it took.
C7_Witness ==
    /\ 1 \in PowerReads
    /\ th[1].body.main_supply = "ON" /\ th[1].body.backup_supply = "ON"
    /\ th[1].body.last_update = StrftimeAlert(0)
    /\ th[2].pc = "done" /\ th[2].op = "update"
    /\ power_status[DEV001] = [main |-> PyFalse, backup |-> PyFalse, last_update |-> 1]

PowerRequests == {"power_status", "update", "simulate"}

\* C8: a power-status read, update or simulate naming an unregistered device
\* returns 404 at once and changes neither the power states, nor the alert
\* list, nor any file.
C8_UnknownDevice ==
    [][\A t \in Threads :
         (/\ Arrives(t)
          /\ th'[t].op \in PowerRequests
          /\ th'[t].device_id \notin DOMAIN power_status)
         => /\ th'[t].pc = "done"
            /\ th'[t].code = 404
            /\ UNCHANGED <<power_status, alerts, alerts_file, msg_file, images>>
      ]_vars

\* An update and a simulation were requested for DEV999; both were answered
\* 404 and nothing was stored.
C8_Witness ==
    /\ \E t \in Threads : th[t].op = "update" /\ th[t].device_id = DEV999
                          /\ th[t].code = 404
    /\ \E t \in Threads : th[t].op = "simulate" /\ th[t].device_id = DEV999
                          /\ th[t].code = 404
    /\ DOMAIN power_status = devices
    /\ alerts = <<>>

\* C9: an update for a registered device returns success at once, whatever
\* pair it reports, and changes nothing but that device's power state: no
\* alert is appended and no file is written.
C9_UpdateIsPure ==
    [][\A t \in Threads :
         (/\ Arrives(t)
          /\ th'[t].op = "update"
          /\ th'[t].device_id \in DOMAIN power_status)
         => /\ th'[t].pc = "done"
            /\ th'[t].code = 200
            /\ UNCHANGED <<alerts, alerts_file, msg_file, images>>
            /\ DOMAIN power_status' = DOMAIN power_status
            /\ \A d \in DOMAIN power_status :
                 d # th'[t].device_id => power_status'[d] = power_status[d]
      ]_vars

\* An update reporting both supplies down was stored and answered 200, after
\* an image alert; the store still holds that one alert.
C9_Witness ==
    /\ th[1].pc = "done" /\ th[1].op = "image"
    /\ th[2].pc = "done" /\ th[2].op = "update" /\ th[2].code = 200
    /\ power_status[DEV001].main = PyFalse
    /\ power_status[DEV001].backup = PyFalse
    /\ Len(alerts) = 1

\* The rules in the order they are tried: a rule matches a message that
\* contains every one of its substrings.
Rules ==
    << [needs |-> {ACCESS_STATUS}, label |-> <<"Access Status Change">>],
       [needs |-> {VIBRATION}, label |-> <<"Vibration Alert">>],
       [needs |-> {ALERT_MARK, ACCESS_DENIED}, label |-> <<"Critical Alert">>],
       [needs |-> {DOOR_OPENED}, label |-> <<"Door Alert">>] >>

Matches(i, m) == \A n \in Rules[i].needs : Contains(n, m)

FirstMatch(m) ==
    IF \E i \in DOMAIN Rules : Matches(i, m)
    THEN LET i == CHOOSE j \in DOMAIN Rules :
                    /\ Matches(j, m)
                    /\ \A k \in DOMAIN Rules : Matches(k, m) => j <= k
         IN Rules[i].label
    ELSE <<"General Alert">>

\* C10: every message gets exactly one label, that of the earliest rule it
\* matches, or General Alert when it matches none.
C10_FirstMatchWins ==
    clf.done => clf.alert_type = FirstMatch(clf.message)

\* A message with both 'Vibration detected' and 'Door opened' was classified
\* Vibration Alert.
C10_Witness ==
    /\ clf.done
    /\ Contains(VIBRATION, clf.message)
    /\ Contains(DOOR_OPENED, clf.message)
    /\ Contains(ACCESS_DENIED, clf.message)
    /\ clf.alert_type = <<"Vibration Alert">>

\* 'ALERT: Access Denied' as it occurs in a message.
ALERT_ACCESS_DENIED == ALERT_MARK \o <<" ">> \o ACCESS_DENIED

\* 'ALERT:' is the only one of the five substrings in the message.
OnlyAlertMark(m) ==
    /\ Contains(ALERT_MARK, m)
    /\ \A n \in {ACCESS_STATUS, VIBRATION, ACCESS_DENIED, DOOR_OPENED} :
         ~Contains(n, m)

\* C11 as stated: every message containing 'ALERT: Access Denied' is a
\* Critical Alert, and a message whose only substring is 'ALERT:' is a
\* General Alert.
C11_CriticalAlways ==
    clf.done =>
      /\ Contains(ALERT_ACCESS_DENIED, clf.message)
           => clf.alert_type = <<"Critical Alert">>
      /\ OnlyAlertMark(clf.message) => clf.alert_type = <<"General Alert">>

\* C11: a message containing 'ALERT: Access Denied' and neither 'Access
\* status changed' nor 'Vibration detected' is a Critical Alert; a message
\* whose only substring is 'ALERT:' is a General Alert.
C11_CriticalUnlessEarlierRule ==
    clf.done =>
      /\ (/\ Contains(ALERT_ACCESS_DENIED, clf.message)
          /\ ~Contains(ACCESS_STATUS, clf.message)
          /\ ~Contains(VIBRATION, clf.message))
           => clf.alert_type = <<"Critical Alert">>
      /\ OnlyAlertMark(clf.message) => clf.alert_type = <<"General Alert">>

\* 'ALERT: Access Denied' followed by 'Door opened' was classified Critical
\* Alert.
C11_Witness ==
    /\ clf.done
    /\ clf.message = ALERT_ACCESS_DENIED \o DOOR_OPENED
    /\ clf.alert_type = <<"Critical Alert">>

PowerAlertTypes == {<<"Power Alert">>, <<"Critical Power Alert">>}

C13_UnsupportedContentType ==
    [][\A t \in Threads :
         Arrives(t) /\ th'[t].op = "unsupported"
         => /\ th'[t].pc = "done"
            /\ th'[t].code = 400
            /\ UNCHANGED <<alerts, alerts_file, msg_file, images, power_status>>
      ]_vars

\* A text/plain POST was answered 400 after a form message had been stored
\* and logged; store and log still hold that one entry.
C13_Witness ==
    /\ th[1].pc = "done" /\ th[1].op = "message" /\ th[1].code = 200
    /\ th[2].pc = "done" /\ th[2].op = "unsupported" /\ th[2].code = 400
    /\ Len(alerts) = 1
    /\ Len(msg_file) = 1
    /\ alerts_file.data = json_dump(alerts)

\* The submissions of kind `op` that have appended their alert.
PastAppend(op) ==
    {t \in Threads : th[t].op = op
                     /\ th[t].pc \in {"save", "save_close", "audit", "done"}}

AlertsOfType(types) == {i \in DOMAIN alerts : alerts[i].alert_type \in types}

MessageTypes ==
    {<<"Access Status Change">>, <<"Vibration Alert">>, <<"Critical Alert">>,
     <<"Door Alert">>, <<"General Alert">>}

RequestDevice(r) == IF r.args = NoArgs THEN UNKNOWN ELSE r.args.device_id

\* C14: the store holds exactly one alert for each image submission and one
\* for each form submission that got past its append, and every submission
\* that returned did so with success; the alert of a form submission has the
\* message of the request unchanged, the label of the first rule it matches,
\* the placeholder image, and the device id of the request or UNKNOWN.
C14_OneAlertPerSubmission ==
    /\ Cardinality(AlertsOfType({<<"Image Captured">>}))
         = Cardinality(PastAppend("image"))
    /\ Cardinality(AlertsOfType(MessageTypes)) = Cardinality(PastAppend("message"))
    /\ Len(alerts) = Cardinality(PastAppend("image")) + Cardinality(PastAppend("message"))
    /\ \A t \in Threads : th[t].pc = "done" /\ th[t].op \in {"image", "message"}
                          => th[t].code = 200
    /\ \A i \in AlertsOfType(MessageTypes) :
         \E r \in TwoForms :
           /\ alerts[i].message = r.message
           /\ alerts[i].alert_type = FirstMatch(r.message)
           /\ alerts[i].image = PLACEHOLDER
           /\ alerts[i].device_id = RequestDevice(r)

\* A form without device_id and then 'Door opened at front gate' for DEV001
\* were submitted; the second is stored as a Door Alert.
C14_Witness ==
    /\ \A t \in Threads : th[t].pc = "done" /\ th[t].op = "message" /\ th[t].code = 200
    /\ Len(alerts) = 2
    /\ alerts[1].device_id = UNKNOWN
    /\ alerts[1].alert_type = <<"General Alert">>
    /\ alerts[2].device_id = DEV001
    /\ alerts[2].alert_type = <<"Door Alert">>
    /\ alerts[2].message = <<"Door opened", " at front gate">>
    /\ alerts[2].image = PLACEHOLDER

ImagesDone == {t \in Threads : th[t].pc = "done" /\ th[t].op = "image"}

\* C18: when two image submissions for the same device made within one
\* second have both returned, both returned success, the store holds their
\* two Image Captured alerts naming the same file, and the image directory
\* holds one file of that name whose content is one of the two images.
C18_SameSecondImages ==
    (Cardinality(ImagesDone) = 2 /\ Len(alerts) = 2) =>
        /\ \A t \in ImagesDone : th[t].code = 200
        /\ \A i \in DOMAIN alerts : alerts[i].alert_type = <<"Image Captured">>
        /\ alerts[1].image = alerts[2].image
        /\ Cardinality({b \in images : b.name = alerts[1].image}) = 1
        /\ BlobData(alerts[1].image) \in {r.data : r \in TwoImages}

PyBool == {PyTrue, PyFalse}

\* C15: in every reachable state the main and backup values stored for each
\* device are both booleans.
C15_BooleanPairs ==
    \A d \in DOMAIN power_status :
      /\ power_status[d].main \in PyBool
      /\ power_status[d].backup \in PyBool

PowerWriters == {t \in Threads : th[t].op \in {"update", "simulate"}}

\* C16: the devices with a power-state entry are exactly the registered
\* devices in every reachable state, and until an update or a simulator call
\* arrives every entry is main=true, backup=true.
C16_PowerEntriesFixed ==
    /\ DOMAIN power_status = devices
    /\ PowerWriters = {} =>
         \A d \in devices : /\ power_status[d].main = PyTrue
                            /\ power_status[d].backup = PyTrue

\* A simulator call naming DEV999 was refused and an update for DEV001 was
\* stored; DEV001 is still the only entry.
C16_Witness ==
    /\ th[1].pc = "done" /\ th[1].op = "simulate" /\ th[1].device_id = DEV999
    /\ th[1].code = 404
    /\ th[2].pc = "done" /\ th[2].op = "update" /\ th[2].code = 200
    /\ power_status[DEV001].main = PyFalse
    /\ DOMAIN power_status = {DEV001}

InStore(a) == \E i \in DOMAIN alerts : alerts[i] = a

\* C17: when the write of the alert file fails, the submission ends with a
\* failure response and the alert it had appended is no longer in the
\* in-memory list.
C17_FailedSaveAborts ==
    [][\A t \in Threads :
         th[t].pc = "save" /\ th'[t].pc = "done"
         => /\ th'[t].code = 500
            /\ \A i \in DOMAIN alerts' : alerts'[i] # th[t].alert
      ]_vars

MessagesLogged == {t \in Threads : th[t].pc = "done" /\ th[t].op = "message"
                                   /\ th[t].code = 200}

\* C20: every line of the audit log has a message alert in the in-memory
\* list with the same timestamp, device and message; a line is written only
\* by a submission whose alert is in the list and whose alert-file write
\* went through, so the log has one line per form submission that returned
\* success and none for one that failed.
C20_AuditAfterStore ==
    /\ \A k \in DOMAIN msg_file :
         \E i \in DOMAIN alerts :
           /\ alerts[i].image = PLACEHOLDER
           /\ msg_file[k] = alerts[i].timestamp \o <<" | ">> \o alerts[i].device_id
                            \o <<" | ">> \o alerts[i].message
    /\ Len(msg_file) = Cardinality(MessagesLogged)
    /\ \A t \in Threads : th[t].pc = "audit" => InStore(th[t].alert) /\ alerts_file.exists

\* One form submission was stored and logged; a second was stored and
\* persisted, its audit write failed, and the log has no line for it.
C20_Witness ==
    /\ th[1].pc = "done" /\ th[1].op = "message" /\ th[1].code = 200
    /\ th[2].pc = "done" /\ th[2].op = "message" /\ th[2].code = 500
    /\ Len(alerts) = 2
    /\ alerts_file.data = json_dump(alerts)
    /\ Len(msg_file) = 1

\* What the last start-up found in the alert file, when it parsed.
Booted == IF boot_file.exists /\ json_load(boot_file.data).ok
          THEN json_load(boot_file.data).val ELSE <<>>

\* C19: with requests handled one at a time, the alert at position i of the
\* store has id i in every reachable state, restarts included, and once the
\* server is up the records of the file it started from are the head of the
\* store, so the first append after a start-up on K records gets id K+1.
C19_DenseAcrossRestart ==
    /\ \A i \in DOMAIN alerts : alerts[i].id = i
    /\ phase = "running" => IsPrefix(Booted, alerts)

\* A form message was stored and saved, the server restarted on that file,
\* and the next submission got id 2.
C19_Witness ==
    /\ Quiet
    /\ Len(Booted) = 1
    /\ Booted[1].message = <<Q, BS>>
    /\ Len(alerts) = 2
    /\ alerts[2].id = 2
    /\ alerts[2].alert_type = <<"Image Captured">>

====
